---- MODULE Spec2Model ----
(***************************************************************************)
(* The task execution engine of attached_assets/data_pipeline: Pipeline    *)
(* (add_task, _get_execution_order, run) over Task and DAGRun records,     *)
(* the pipeline_runs table of DataStore and the Scheduler around them.     *)
(* Task bodies are opaque callables: an invocation either returns a        *)
(* payload or raises an Exception.                                         *)
(***************************************************************************)
EXTENDS Integers, Sequences, FiniteSets, TLC

(* ------------------------------ bounds -------------------------------- *)
\* largest retries value passed to add_task
MaxRetries == 2
\* most dependency entries in one pipeline, over all its tasks
MaxEdges == 3
\* clock ticks in one second (the clock is finer than the run id's seconds)
TicksPerSecond == 2
\* last tick of the clock
MaxClock == 2
\* most runs of the pipeline that return
MaxRuns == 2
\* longest dependency list of the graphs the order is computed on
MaxOrderDeps == 1
\* largest limit passed to get_run_history
MaxLimit == 2

\* task ids are opaque strings; the engine only compares and hashes them
TaskIds == {"a", "b", "c"}
\* an id not yet registered is taken in this order (ids are interchangeable);
\* an id of TaskIds that is never registered is a dangling dependency id
FreshOrder == <<"a", "b", "c">>

(* ------------------------- TaskStatus, None --------------------------- *)
None == "None"
PENDING == "TaskStatus.PENDING"
RUNNING == "TaskStatus.RUNNING"
SUCCESS == "TaskStatus.SUCCESS"
FAILED == "TaskStatus.FAILED"
SKIPPED == "TaskStatus.SKIPPED"

\* the .value of a TaskStatus member
value(status) ==
  CASE status = PENDING -> "pending"
    [] status = RUNNING -> "running"
    [] status = SUCCESS -> "success"
    [] status = FAILED -> "failed"
    [] status = SKIPPED -> "skipped"

Range(s) == {s[i] : i \in 1..Len(s)}
EmptyMap == [k \in {} |-> None]

\* the dependency lists add_task is called with: no id twice in a list
DepLists ==
  {s \in UNION {[1..n -> TaskIds] : n \in 0..MaxEdges} :
     \A i, j \in 1..Len(s) : i # j => s[i] # s[j]}

(* ------------------------------- Task --------------------------------- *)
\* dataclass Task: the fields the engine reads and writes
Task(dependencies, retries) ==
  [dependencies |-> dependencies, retries |-> retries,
   status |-> PENDING, result |-> None, error |-> None,
   started_at |-> None, completed_at |-> None]

\* the opaque body: what its k-th invocation for task_id returns / raises
Payload(task_id, k) == <<"payload", task_id, k>>
ErrText(task_id, k) == <<"error", task_id, k>>

(* ------------------------------ state --------------------------------- *)
VARIABLES
  keys,             \* Pipeline.tasks: the dict's key order (insertion order)
  tasks,            \* Pipeline.tasks: task_id -> Task
  pc,               \* position of the program: "build", "loop", "attempt", "done", "raised"
  dag_run,          \* run(): the DAGRun under construction (status, tasks)
  execution_order,  \* run(): the local execution_order
  idx,              \* run(): position of the for loop over execution_order (1-based)
  attempt,          \* run(): the retry loop's variable
  context,          \* run(): the shared context dict
  calls,            \* history: per task id, the outcome of each body invocation (TRUE = returned)
  now,              \* the clock datetime.now() reads, in ticks
  runs,             \* Pipeline.runs
  table,            \* DataStore: the rows of the pipeline_runs table
  persisted,        \* history: the DAGRun of the last save_pipeline_run that committed
  pipelines,        \* Scheduler.pipelines: the dag ids it has a pipeline for
  spc,              \* the last Scheduler.run_pipeline call: where it is, its dag_id, its error
  history           \* the get_run_history call just made: its arguments and what it
                    \* returned (NoHistory once anything else has happened)

vars == <<keys, tasks, pc, dag_run, execution_order, idx, attempt, context, calls,
          now, runs, table, persisted, pipelines, spc, history>>

\* the store and the scheduler's registry
store_vars == <<table, persisted, pipelines, history>>

\* no run_pipeline call made or under way
Idle == [at |-> "idle", dag_id |-> None, error |-> None]

\* no get_run_history result held
NoHistory == [called |-> FALSE, dag_id |-> None, limit |-> 0, rows |-> <<>>]

\* Pipeline.dag_id of the pipeline under study (an opaque, non-empty string)
dag_id == "p"

NoRun == [run_id |-> None, dag_id |-> None, start_time |-> None, end_time |-> None,
          status |-> None, tasks |-> EmptyMap]

\* what datetime.now() returns at tick t
Datetime(t) == <<"datetime", t>>

\* strftime('%Y%m%d_%H%M%S'): the clock cut to whole seconds
Strftime(t) == t \div TicksPerSecond

\* line 100: f"{self.dag_id}_{datetime.now().strftime(...)}"
RunId(d, t) == <<d, Strftime(t)>>

(* ----------------------- _get_execution_order ------------------------- *)
RECURSIVE visit(_, _, _), visit_deps(_, _, _, _)

\* a plausible slip: an id that names no task is put in the order as well
visit_keeps_unknown(T, task_id, st) ==
  IF task_id \in st.visited THEN st
  ELSE LET st1 == [st EXCEPT !.visited = @ \cup {task_id}]
           st2 == IF task_id \in DOMAIN T
                  THEN visit_deps(T, T[task_id].dependencies, 1, st1)
                  ELSE st1
       IN  [st2 EXCEPT !.order = Append(@, task_id)]

\* visit(task_id) with the closure's visited and order carried in st
visit(T, task_id, st) ==
  IF task_id \in st.visited THEN st
  ELSE LET st1 == [st EXCEPT !.visited = @ \cup {task_id}] IN
       IF task_id \in DOMAIN T
       THEN LET st2 == visit_deps(T, T[task_id].dependencies, 1, st1)
            IN  [st2 EXCEPT !.order = Append(@, task_id)]
       ELSE st1

\* for dep in task.dependencies: visit(dep)
visit_deps(T, deps, i, st) ==
  IF i > Len(deps) THEN st
  ELSE visit_deps(T, deps, i + 1, visit(T, deps[i], st))

RECURSIVE visit_all(_, _, _, _)
\* for task_id in self.tasks: visit(task_id)
visit_all(K, T, i, st) ==
  IF i > Len(K) THEN st
  ELSE visit_all(K, T, i + 1, visit(T, K[i], st))

\* a plausible slip: the tasks in registration order, no sort
get_execution_order_unsorted(K, T) == K

\* a plausible slip: the tasks are visited last registered first
get_execution_order_reversed(K, T) ==
  visit_all([i \in 1..Len(K) |-> K[Len(K) + 1 - i]], T, 1,
            [visited |-> {}, order |-> <<>>]).order

get_execution_order(K, T) ==
  visit_all(K, T, 1, [visited |-> {}, order |-> <<>>]).order

(* ------------------------------ add_task ------------------------------ *)
add_task(task_id, dependencies, retries) ==
  /\ pc \in {"build", "done", "raised"}
  /\ \/ task_id \in Range(keys)
     \/ Len(keys) < Len(FreshOrder) /\ task_id = FreshOrder[Len(keys) + 1]
  /\ keys' = IF task_id \in Range(keys) THEN keys ELSE Append(keys, task_id)
  /\ tasks' = [k \in DOMAIN tasks \cup {task_id} |->
                 IF k = task_id THEN Task(dependencies, retries) ELSE tasks[k]]
  /\ UNCHANGED <<pc, dag_run, execution_order, idx, attempt, context, calls>>
  /\ UNCHANGED <<now, runs, spc, store_vars>>

(* -------------------------------- run --------------------------------- *)
\* a plausible slip: an ordering routine that uses up the dependency lists of
\* the pipeline's own tasks as it emits them
run_enter_consuming ==
  /\ dag_run' = [run_id |-> RunId(dag_id, now), dag_id |-> dag_id,
                 start_time |-> Datetime(now), end_time |-> None, status |-> PENDING,
                 tasks |-> [k \in DOMAIN tasks |-> tasks[k]]]
  /\ execution_order' = get_execution_order(keys, tasks)
  /\ tasks' = [k \in DOMAIN tasks |-> [tasks[k] EXCEPT !.dependencies = <<>>]]
  /\ context' = EmptyMap
  /\ idx' = 1
  /\ pc' = "loop"
  /\ calls' = [t \in TaskIds |-> <<>>]
  /\ history' = NoHistory
  /\ UNCHANGED <<keys, attempt, now, runs, table, persisted, pipelines>>

\* lines 100-112: the DAGRun with a copy of every task, the order, and the
\* context of a call without one (context or {})
run_enter ==
  /\ dag_run' = [run_id |-> RunId(dag_id, now), dag_id |-> dag_id,
                 start_time |-> Datetime(now), end_time |-> None, status |-> PENDING,
                 tasks |-> [k \in DOMAIN tasks |-> tasks[k]]]
  /\ execution_order' = get_execution_order(keys, tasks)
  /\ context' = EmptyMap
  /\ idx' = 1
  /\ pc' = "loop"
  /\ calls' = [t \in TaskIds |-> <<>>]
  /\ history' = NoHistory
  /\ UNCHANGED <<keys, tasks, attempt, now, runs, table, persisted, pipelines>>

\* pipeline.run() called by the user, when no call is under way
run_begin ==
  /\ pc \in {"build", "done", "raised"}
  /\ run_enter
  /\ spc' = Idle

\* a plausible slip: a skipped dependency passes the gate
dep_ok_or_skipped(status) == status \in {SUCCESS, SKIPPED}

\* a plausible slip: a dependency that has not run yet passes the gate
dep_ok_or_pending(status) == status \in {SUCCESS, PENDING}

\* the test a dependency's status must pass
dep_ok(status) == status = SUCCESS

RECURSIVE deps_success(_, _, _)
\* all(dag_run.tasks[dep].status == SUCCESS for dep in task.dependencies):
\* stops at the first dependency that is not SUCCESS; a dependency id that is
\* no key of dag_run.tasks raises KeyError when it is reached
deps_success(RT, deps, i) ==
  IF i > Len(deps) THEN "true"
  ELSE IF deps[i] \notin DOMAIN RT THEN "KeyError"
  ELSE IF ~dep_ok(RT[deps[i]].status) THEN "false"
  ELSE deps_success(RT, deps, i + 1)

\* a plausible slip: started_at is stamped before the gate is evaluated
run_gate_stamps_first ==
  /\ pc = "loop"
  /\ idx <= Len(execution_order)
  /\ LET task_id == execution_order[idx]
         task == dag_run.tasks[task_id]
         ok == deps_success(dag_run.tasks, task.dependencies, 1)
     IN  CASE ok = "KeyError" ->
                /\ pc' = "raised"
                /\ spc' = IF spc.at = "running"
                          THEN [spc EXCEPT !.at = "raised", !.error = "KeyError"]
                          ELSE spc
                /\ UNCHANGED <<dag_run, idx, attempt>>
           [] ok = "false" ->
                /\ dag_run' = [dag_run EXCEPT !.tasks[task_id].status = SKIPPED,
                                              !.tasks[task_id].started_at = Datetime(now)]
                /\ idx' = idx + 1
                /\ UNCHANGED <<pc, attempt, spc>>
           [] ok = "true" ->
                /\ dag_run' = [dag_run EXCEPT !.tasks[task_id].status = RUNNING,
                                              !.tasks[task_id].started_at = Datetime(now)]
                /\ attempt' = 0
                /\ IF task.retries > 0
                   THEN pc' = "attempt" /\ idx' = idx
                   ELSE pc' = "loop" /\ idx' = idx + 1
                /\ UNCHANGED spc
  /\ UNCHANGED <<keys, tasks, execution_order, context, calls>>
  /\ UNCHANGED <<now, runs, store_vars>>

\* a plausible slip: started_at is left unset when the task starts
run_gate_unstamped ==
  /\ pc = "loop"
  /\ idx <= Len(execution_order)
  /\ LET task_id == execution_order[idx]
         task == dag_run.tasks[task_id]
         ok == deps_success(dag_run.tasks, task.dependencies, 1)
     IN  CASE ok = "KeyError" ->
                /\ pc' = "raised"
                /\ spc' = IF spc.at = "running"
                          THEN [spc EXCEPT !.at = "raised", !.error = "KeyError"]
                          ELSE spc
                /\ UNCHANGED <<dag_run, idx, attempt>>
           [] ok = "false" ->
                /\ dag_run' = [dag_run EXCEPT !.tasks[task_id].status = SKIPPED]
                /\ idx' = idx + 1
                /\ UNCHANGED <<pc, attempt, spc>>
           [] ok = "true" ->
                /\ dag_run' = [dag_run EXCEPT !.tasks[task_id].status = RUNNING]
                /\ attempt' = 0
                /\ IF task.retries > 0
                   THEN pc' = "attempt" /\ idx' = idx
                   ELSE pc' = "loop" /\ idx' = idx + 1
                /\ UNCHANGED spc
  /\ UNCHANGED <<keys, tasks, execution_order, context, calls>>
  /\ UNCHANGED <<now, runs, store_vars>>

\* lines 114-130: one turn of the for loop up to the retry loop
run_gate ==
  /\ pc = "loop"
  /\ idx <= Len(execution_order)
  /\ LET task_id == execution_order[idx]
         task == dag_run.tasks[task_id]
         ok == deps_success(dag_run.tasks, task.dependencies, 1)
     IN  CASE ok = "KeyError" ->
                /\ pc' = "raised"
                /\ spc' = IF spc.at = "running"
                          THEN [spc EXCEPT !.at = "raised", !.error = "KeyError"]
                          ELSE spc
                /\ UNCHANGED <<dag_run, idx, attempt>>
           [] ok = "false" ->
                /\ dag_run' = [dag_run EXCEPT !.tasks[task_id].status = SKIPPED]
                /\ idx' = idx + 1
                /\ UNCHANGED <<pc, attempt, spc>>
           [] ok = "true" ->
                /\ dag_run' = [dag_run EXCEPT !.tasks[task_id].status = RUNNING,
                                              !.tasks[task_id].started_at = Datetime(now)]
                /\ attempt' = 0
                /\ IF task.retries > 0
                   THEN pc' = "attempt" /\ idx' = idx
                   ELSE pc' = "loop" /\ idx' = idx + 1
                /\ UNCHANGED spc
  /\ UNCHANGED <<keys, tasks, execution_order, context, calls>>
  /\ UNCHANGED <<now, runs, store_vars>>

\* a plausible slip: no break after the first success
run_attempt_ok_no_break ==
  /\ pc = "attempt"
  /\ LET task_id == execution_order[idx]
         task == dag_run.tasks[task_id]
         k == Len(calls[task_id]) + 1
     IN  /\ calls' = [calls EXCEPT ![task_id] = Append(@, TRUE)]
         /\ dag_run' = [dag_run EXCEPT !.tasks[task_id].result = Payload(task_id, k),
                                       !.tasks[task_id].status = SUCCESS,
                                       !.tasks[task_id].completed_at = Datetime(now)]
         /\ IF attempt < task.retries - 1
            THEN attempt' = attempt + 1 /\ UNCHANGED <<idx, pc>>
            ELSE idx' = idx + 1 /\ pc' = "loop" /\ UNCHANGED attempt
  /\ UNCHANGED <<keys, tasks, execution_order, context>>
  /\ UNCHANGED <<now, runs, spc, store_vars>>

\* lines 133-140: the body returns
run_attempt_ok ==
  /\ pc = "attempt"
  /\ LET task_id == execution_order[idx]
         k == Len(calls[task_id]) + 1
     IN  /\ calls' = [calls EXCEPT ![task_id] = Append(@, TRUE)]
         /\ dag_run' = [dag_run EXCEPT !.tasks[task_id].result = Payload(task_id, k),
                                       !.tasks[task_id].status = SUCCESS,
                                       !.tasks[task_id].completed_at = Datetime(now)]
  /\ idx' = idx + 1
  /\ pc' = "loop"
  /\ UNCHANGED <<keys, tasks, execution_order, attempt, context>>
  /\ UNCHANGED <<now, runs, spc, store_vars>>

\* a plausible slip: the last failure leaves the loop without marking the task
run_attempt_fail_unmarked ==
  /\ pc = "attempt"
  /\ LET task_id == execution_order[idx]
         task == dag_run.tasks[task_id]
         k == Len(calls[task_id]) + 1
     IN  /\ calls' = [calls EXCEPT ![task_id] = Append(@, FALSE)]
         /\ dag_run' = [dag_run EXCEPT !.tasks[task_id].error = ErrText(task_id, k)]
         /\ IF attempt < task.retries - 1
            THEN attempt' = attempt + 1 /\ UNCHANGED <<idx, pc>>
            ELSE idx' = idx + 1 /\ pc' = "loop" /\ UNCHANGED attempt
  /\ UNCHANGED <<keys, tasks, execution_order, context>>
  /\ UNCHANGED <<now, runs, spc, store_vars>>

\* a plausible slip: the last failure is raised out of run()
run_attempt_fail_reraised ==
  /\ pc = "attempt"
  /\ LET task_id == execution_order[idx]
         task == dag_run.tasks[task_id]
         k == Len(calls[task_id]) + 1
     IN  /\ calls' = [calls EXCEPT ![task_id] = Append(@, FALSE)]
         /\ dag_run' = [dag_run EXCEPT !.tasks[task_id].error = ErrText(task_id, k)]
         /\ IF attempt < task.retries - 1
            THEN attempt' = attempt + 1 /\ UNCHANGED <<idx, pc>>
            ELSE pc' = "raised" /\ UNCHANGED <<idx, attempt>>
  /\ UNCHANGED <<keys, tasks, execution_order, context>>
  /\ UNCHANGED <<now, runs, spc, store_vars>>

\* a plausible slip: every failure marks the task Failed, retries still follow
run_attempt_fail_marked_early ==
  /\ pc = "attempt"
  /\ LET task_id == execution_order[idx]
         task == dag_run.tasks[task_id]
         k == Len(calls[task_id]) + 1
     IN  /\ calls' = [calls EXCEPT ![task_id] = Append(@, FALSE)]
         /\ dag_run' = [dag_run EXCEPT !.tasks[task_id].error = ErrText(task_id, k),
                                       !.tasks[task_id].status = FAILED,
                                       !.tasks[task_id].completed_at = Datetime(now)]
         /\ IF attempt < task.retries - 1
            THEN attempt' = attempt + 1 /\ UNCHANGED <<idx, pc>>
            ELSE idx' = idx + 1 /\ pc' = "loop" /\ UNCHANGED attempt
  /\ UNCHANGED <<keys, tasks, execution_order, context>>
  /\ UNCHANGED <<now, runs, spc, store_vars>>

\* lines 142-149: the body raises an Exception
run_attempt_fail ==
  /\ pc = "attempt"
  /\ LET task_id == execution_order[idx]
         task == dag_run.tasks[task_id]
         k == Len(calls[task_id]) + 1
     IN  /\ calls' = [calls EXCEPT ![task_id] = Append(@, FALSE)]
         /\ IF attempt < task.retries - 1
            THEN /\ dag_run' = [dag_run EXCEPT !.tasks[task_id].error = ErrText(task_id, k)]
                 /\ attempt' = attempt + 1
                 /\ UNCHANGED <<idx, pc>>
            ELSE /\ dag_run' = [dag_run EXCEPT !.tasks[task_id].error = ErrText(task_id, k),
                                               !.tasks[task_id].status = FAILED,
                                               !.tasks[task_id].completed_at = Datetime(now)]
                 /\ idx' = idx + 1
                 /\ pc' = "loop"
                 /\ UNCHANGED attempt
  /\ UNCHANGED <<keys, tasks, execution_order, context>>
  /\ UNCHANGED <<now, runs, spc, store_vars>>

\* a plausible slip: the run's tasks are stored back into the pipeline
run_finish_writes_back ==
  /\ pc = "loop"
  /\ idx > Len(execution_order)
  /\ dag_run' = [dag_run EXCEPT !.end_time = Datetime(now),
                                !.status =
                   IF \A t \in DOMAIN dag_run.tasks :
                        dag_run.tasks[t].status \in {SUCCESS, SKIPPED}
                   THEN SUCCESS ELSE FAILED]
  /\ runs' = Append(runs, dag_run')
  /\ tasks' = dag_run'.tasks
  /\ pc' = "done"
  /\ UNCHANGED <<keys, execution_order, idx, attempt, context, calls>>
  /\ UNCHANGED <<now, spc, store_vars>>

\* a plausible slip: the returned record replaces the log instead of joining it
run_finish_resets_log ==
  /\ pc = "loop"
  /\ idx > Len(execution_order)
  /\ dag_run' = [dag_run EXCEPT !.end_time = Datetime(now),
                                !.status =
                   IF \A t \in DOMAIN dag_run.tasks :
                        dag_run.tasks[t].status \in {SUCCESS, SKIPPED}
                   THEN SUCCESS ELSE FAILED]
  /\ runs' = <<dag_run'>>
  /\ pc' = "done"
  /\ UNCHANGED <<keys, tasks, execution_order, idx, attempt, context, calls>>
  /\ UNCHANGED <<now, spc, store_vars>>

\* lines 151-160: the overall status, the return
run_finish ==
  /\ pc = "loop"
  /\ idx > Len(execution_order)
  /\ dag_run' = [dag_run EXCEPT !.end_time = Datetime(now),
                                !.status =
                   IF \A t \in DOMAIN dag_run.tasks :
                        dag_run.tasks[t].status \in {SUCCESS, SKIPPED}
                   THEN SUCCESS ELSE FAILED]
  /\ runs' = Append(runs, dag_run')
  /\ pc' = "done"
  /\ UNCHANGED <<keys, tasks, execution_order, idx, attempt, context, calls>>
  /\ UNCHANGED <<now, spc, store_vars>>

(* ------------------------------ clock --------------------------------- *)
\* time passes
tick ==
  /\ now < MaxClock
  /\ now' = now + 1
  /\ history' = NoHistory
  /\ UNCHANGED <<keys, tasks, pc, dag_run, execution_order, idx, attempt, context,
                 calls, runs, spc, table, persisted, pipelines>>

(* ----------------------------- DataStore ------------------------------ *)
\* datetime.isoformat(): a text whose order is the order of the instants
isoformat(dt) == <<"iso", dt[2]>>

\* json.dumps / json.loads of a dict of strings and nulls
JsonDumps(x) == <<"json", x>>
JsonLoads(text) == text[2]

\* a plausible slip: the error text is left out of the results
RowWithoutError(run) ==
  [run_id |-> run.run_id,
   dag_id |-> run.dag_id,
   status |-> value(run.status),
   start_time |-> isoformat(run.start_time),
   end_time |-> IF run.end_time # None THEN isoformat(run.end_time) ELSE None,
   results |-> JsonDumps(
     [task_id \in DOMAIN run.tasks |->
        LET task == run.tasks[task_id]
        IN  [status |-> value(task.status),
             error |-> None,
             started_at |-> IF task.started_at # None
                            THEN isoformat(task.started_at) ELSE None,
             completed_at |-> IF task.completed_at # None
                              THEN isoformat(task.completed_at) ELSE None]])]

\* save_pipeline_run, lines 310-331: the row written for a DAGRun
Row(run) ==
  [run_id |-> run.run_id,
   dag_id |-> run.dag_id,
   status |-> value(run.status),
   start_time |-> isoformat(run.start_time),
   end_time |-> IF run.end_time # None THEN isoformat(run.end_time) ELSE None,
   results |-> JsonDumps(
     [task_id \in DOMAIN run.tasks |->
        LET task == run.tasks[task_id]
        IN  [status |-> value(task.status),
             error |-> task.error,
             started_at |-> IF task.started_at # None
                            THEN isoformat(task.started_at) ELSE None,
             completed_at |-> IF task.completed_at # None
                              THEN isoformat(task.completed_at) ELSE None]])]

\* a plausible slip: a plain INSERT into a table without the primary key
InsertPlain(tbl, row) == tbl \cup {row}

\* INSERT OR REPLACE on a table whose primary key is run_id
InsertOrReplace(tbl, row) == {r \in tbl : r.run_id # row.run_id} \cup {row}

\* no call of the engine, the scheduler or the store is under way
AtRest == pc \in {"build", "done", "raised"} /\ spc.at # "running"

\* DataStore().save_pipeline_run(run) called by the user; it commits
save_pipeline_run(run) ==
  /\ AtRest
  /\ table' = InsertOrReplace(table, Row(run))
  /\ persisted' = run
  /\ spc' = Idle
  /\ history' = NoHistory
  /\ UNCHANGED <<keys, tasks, pc, dag_run, execution_order, idx, attempt, context,
                 calls, now, runs, pipelines>>

(* ----------------------------- Scheduler ------------------------------ *)
\* register_pipeline(pipeline) for the pipeline under study
register_pipeline ==
  /\ AtRest
  /\ pipelines' = pipelines \cup {dag_id}
  /\ history' = NoHistory
  /\ UNCHANGED <<keys, tasks, pc, dag_run, execution_order, idx, attempt, context,
                 calls, now, runs, table, persisted, spc>>

\* a plausible slip: the pipeline is run without looking the id up
run_pipeline_unchecked(d) ==
  /\ AtRest
  /\ run_enter
  /\ spc' = [at |-> "running", dag_id |-> d, error |-> None]

\* run_pipeline(dag_id), lines 476-480: the lookup, then pipeline.run()
run_pipeline(d) ==
  /\ AtRest
  /\ IF d \notin pipelines
     THEN /\ spc' = [at |-> "raised", dag_id |-> d, error |-> "ValueError"]
          /\ history' = NoHistory
          /\ UNCHANGED <<keys, tasks, pc, dag_run, execution_order, idx, attempt,
                         context, calls, now, runs, table, persisted, pipelines>>
     ELSE /\ run_enter
          /\ spc' = [at |-> "running", dag_id |-> d, error |-> None]

\* a plausible slip: a failure of the store is swallowed and the run returned
run_pipeline_save_swallowed ==
  /\ pc = "done"
  /\ spc.at = "running"
  /\ \/ /\ table' = InsertOrReplace(table, Row(dag_run))
        /\ persisted' = dag_run
     \/ UNCHANGED <<table, persisted>>
  /\ spc' = [spc EXCEPT !.at = "returned"]
  /\ UNCHANGED <<keys, tasks, pc, dag_run, execution_order, idx, attempt, context,
                 calls, now, runs, pipelines, history>>

\* run_pipeline, lines 482-486: the run is saved and returned, or the store's
\* error (sqlite3.Error) leaves run_pipeline with nothing committed
run_pipeline_save ==
  /\ pc = "done"
  /\ spc.at = "running"
  /\ \/ /\ table' = InsertOrReplace(table, Row(dag_run))
        /\ persisted' = dag_run
        /\ spc' = [spc EXCEPT !.at = "returned"]
     \/ /\ spc' = [spc EXCEPT !.at = "raised", !.error = "sqlite3.Error"]
        /\ UNCHANGED <<table, persisted>>
  /\ UNCHANGED <<keys, tasks, pc, dag_run, execution_order, idx, attempt, context,
                 calls, now, runs, pipelines, history>>

\* `if dag_id:` takes None and the empty string as no filter
Selected(tbl, d) == IF d # None /\ d # "" THEN {r \in tbl : r.dag_id = d} ELSE tbl

\* a plausible slip: ORDER BY start_time without DESC
OrderByStartTimeAsc(S) ==
  {p \in [1..Cardinality(S) -> S] :
     /\ \A i, j \in DOMAIN p : i # j => p[i] # p[j]
     /\ \A i, j \in DOMAIN p : i < j => p[i].start_time[2] <= p[j].start_time[2]}

\* ORDER BY start_time DESC: the orders the engine may return the rows in
\* (rows of equal start_time come in any order)
OrderByStartTimeDesc(S) ==
  {p \in [1..Cardinality(S) -> S] :
     /\ \A i, j \in DOMAIN p : i # j => p[i] # p[j]
     /\ \A i, j \in DOMAIN p : i < j => p[i].start_time[2] >= p[j].start_time[2]}

\* LIMIT ?: the first l rows; a negative l is no limit
Limit(p, l) == IF l < 0 \/ l > Len(p) THEN p ELSE SubSeq(p, 1, l)

\* lines 508-517: the dict built from a row
Entry(r) ==
  [run_id |-> r.run_id, dag_id |-> r.dag_id, status |-> r.status,
   start_time |-> r.start_time, end_time |-> r.end_time,
   results |-> IF r.results # None THEN JsonLoads(r.results) ELSE None]

\* get_run_history(dag_id, limit)
get_run_history(d, l) ==
  /\ AtRest
  /\ \E p \in OrderByStartTimeDesc(Selected(table, d)) :
       history' = [called |-> TRUE, dag_id |-> d, limit |-> l,
                   rows |-> [i \in 1..Len(Limit(p, l)) |-> Entry(Limit(p, l)[i])]]
  /\ UNCHANGED <<keys, tasks, pc, dag_run, execution_order, idx, attempt, context,
                 calls, now, runs, table, persisted, pipelines, spc>>

(* --------------------------- specification ---------------------------- *)
Init ==
  /\ keys = <<>>
  /\ tasks = EmptyMap
  /\ pc = "build"
  /\ dag_run = NoRun
  /\ execution_order = <<>>
  /\ idx = 0
  /\ attempt = 0
  /\ context = EmptyMap
  /\ calls = [t \in TaskIds |-> <<>>]
  /\ now = 0
  /\ runs = <<>>
  /\ table = {}
  /\ pipelines = {}
  /\ persisted = NoRun
  /\ spc = Idle
  /\ history = NoHistory

RECURSIVE DepCount(_, _, _)
\* the dependency entries of the tasks K[i..]
DepCount(K, T, i) ==
  IF i > Len(K) THEN 0
  ELSE Len(T[K[i]].dependencies) + DepCount(K, T, i + 1)

\* the dependency lists of at most n entries
DepListsUpTo == [n \in 0..MaxEdges |-> {d : d \in {s \in DepLists : Len(s) <= n}}]

\* the dependency lists task_id can be (re)registered with inside MaxEdges
DepListsFor(task_id) ==
  DepListsUpTo[MaxEdges - DepCount(SelectSeq(keys, LAMBDA k : k # task_id), tasks, 1)]

Next ==
  \/ /\ pc = "build"
     /\ \E task_id \in TaskIds :
          \E dependencies \in DepListsFor(task_id), retries \in 0..MaxRetries :
            add_task(task_id, dependencies, retries)
  \/ pc = "build" /\ run_begin
  \/ run_gate
  \/ run_attempt_ok
  \/ run_attempt_fail
  \/ run_finish

Spec == Init /\ [][Next]_vars

(* ------------- specification: the scheduler and the clock ------------ *)
\* dag ids passed to the scheduler; only dag_id names a pipeline it can hold
DagIds == {"p", "q"}

\* the pipelines built here: a, or a and b with b depending on a
SchedTaskIds == {"a", "b"}
SchedDeps(task_id) == IF task_id = "a" THEN {<<>>} ELSE {<<"a">>}
SchedRetries == {1, 2}

NextSched ==
  \/ /\ pc = "build"
     /\ \E task_id \in SchedTaskIds :
          \E dependencies \in SchedDeps(task_id), retries \in SchedRetries :
            add_task(task_id, dependencies, retries)
  \/ Len(runs) < MaxRuns /\ run_begin
  \/ run_gate
  \/ run_attempt_ok
  \/ run_attempt_fail
  \/ run_finish
  \/ AtRest /\ tick
  \/ register_pipeline
  \/ Len(runs) < MaxRuns /\ \E d \in DagIds : run_pipeline(d)
  \/ run_pipeline_save
  \/ \E run \in Range(runs) : save_pipeline_run(run)

SpecSched == Init /\ [][NextSched]_vars

(* -------------- specification: the store and its history -------------- *)
\* the pipelines built here: the task a alone, depending on nothing or on itself
StoreDeps == {<<>>, <<"a">>}

\* what Pipeline("q").run() returns at tick t for a pipeline without tasks
OtherRun(t) ==
  [run_id |-> RunId("q", t), dag_id |-> "q",
   start_time |-> Datetime(t), end_time |-> Datetime(t),
   status |-> SUCCESS, tasks |-> EmptyMap]

\* one run of the pipeline, saved by its caller next to the runs of another
\* pipeline, and the history read back
NextStore ==
  \/ /\ pc = "build"
     /\ \E dependencies \in StoreDeps : add_task("a", dependencies, MaxRetries)
  \/ runs = <<>> /\ run_begin
  \/ run_gate
  \/ run_attempt_ok
  \/ run_attempt_fail
  \/ run_finish
  \/ tick
  \/ \E run \in Range(runs) \cup {OtherRun(now)} : save_pipeline_run(run)
  \/ \E d \in DagIds \cup {None}, l \in 0..MaxLimit : get_run_history(d, l)

SpecStore == Init /\ [][NextStore]_vars

(* ------------- specification: one run under a running clock ---------- *)
\* the pipelines built here: a, or a and b with b depending on a
ClockDeps(task_id) == IF task_id = "a" THEN {<<>>} ELSE {<<"a">>}

NextClock ==
  \/ /\ pc = "build"
     /\ \E task_id \in SchedTaskIds :
          \E dependencies \in ClockDeps(task_id), retries \in 0..MaxRetries :
            add_task(task_id, dependencies, retries)
  \/ runs = <<>> /\ run_begin
  \/ run_gate
  \/ run_attempt_ok
  \/ run_attempt_fail
  \/ run_finish
  \/ tick

SpecClock == Init /\ [][NextClock]_vars

(* ------------- specification: runs that return and raise -------------- *)
\* the pipelines built here, and rebuilt between runs: a, which may name b
\* before b is registered, and b depending on a
RunsDeps(task_id) == IF task_id = "a" THEN {<<>>, <<"b">>} ELSE {<<"a">>}

NextRuns ==
  \/ /\ pc \in {"build", "done", "raised"}
     /\ \E task_id \in SchedTaskIds :
          \E dependencies \in RunsDeps(task_id) : add_task(task_id, dependencies, 1)
  \/ Len(runs) < MaxRuns /\ run_begin
  \/ run_gate
  \/ run_attempt_ok
  \/ run_attempt_fail
  \/ run_finish

SpecRuns == Init /\ [][NextRuns]_vars

(* ------------- specification: the order of larger graphs ------------- *)
\* the ids of the graphs built here, in registration order
OrderIds == <<"a", "b", "c", "d">>

\* an id that is never registered
UnknownId == "x"

\* their dependency lists: no id twice in a list
OrderDeps ==
  {d : d \in {s \in UNION {[1..n -> Range(OrderIds) \cup {UnknownId}] :
                              n \in 0..MaxOrderDeps} :
                \A i, j \in 1..Len(s) : i # j => s[i] # s[j]}}

\* pipeline._get_execution_order() called on the pipeline as built
order_call ==
  /\ pc = "build"
  /\ execution_order' = get_execution_order(keys, tasks)
  /\ pc' = "ordered"
  /\ UNCHANGED <<keys, tasks, dag_run, idx, attempt, context, calls,
                 now, runs, spc, store_vars>>

\* a pipeline after add_task of the first n ids, each with some dependency list
InitOrder ==
  /\ \E n \in 0..Len(OrderIds) :
       /\ keys = SubSeq(OrderIds, 1, n)
       /\ tasks \in [{OrderIds[i] : i \in 1..n} -> {Task(d, 1) : d \in OrderDeps}]
  /\ pc = "build"
  /\ dag_run = NoRun
  /\ execution_order = <<>>
  /\ idx = 0
  /\ attempt = 0
  /\ context = EmptyMap
  /\ calls = [t \in TaskIds |-> <<>>]
  /\ now = 0
  /\ runs = <<>>
  /\ table = {}
  /\ persisted = NoRun
  /\ pipelines = {}
  /\ spc = Idle
  /\ history = NoHistory

NextOrder == order_call

SpecOrder == InitOrder /\ [][NextOrder]_vars

(* ------------------------- the dependency graph ------------------------ *)
Registered == DOMAIN tasks

\* the ids task t names as dependencies (registered or not)
DepsOf(t) == IF t \in Registered THEN Range(tasks[t].dependencies) ELSE {}

RECURSIVE Closure(_, _)
Closure(S, n) ==
  IF n = 0 THEN S ELSE Closure(S \cup UNION {DepsOf(x) : x \in S}, n - 1)

\* the direct and transitive dependencies of t
TransDeps(t) == Closure(DepsOf(t), Cardinality(TaskIds))

Acyclic == \A t \in Registered : t \notin TransDeps(t)
NoDangling == \A t \in Registered : DepsOf(t) \subseteq Registered

Pos(seq, x) == CHOOSE i \in 1..Len(seq) : seq[i] = x
Invoked(t) == calls[t] # <<>>
NoBodyInvoked == \A t \in TaskIds : ~Invoked(t)

(* ------------------------------- claims -------------------------------- *)

\* C1: for an acyclic pipeline whose dependency ids are all registered, the
\* execution order holds every registered id exactly once and every task
\* comes after each of its direct and transitive dependencies.
C1_Ordering ==
  (pc # "build" /\ Acyclic /\ NoDangling) =>
    /\ Len(execution_order) = Cardinality(Registered)
    /\ Range(execution_order) = Registered
    /\ \A t \in Registered : \A d \in TransDeps(t) :
         Pos(execution_order, d) < Pos(execution_order, t)

\* an order computed for a three-task chain registered dependents first
C1_Witness ==
  /\ pc # "build" /\ Acyclic /\ NoDangling
  /\ Cardinality(Registered) = 3
  /\ \E t \in Registered : TransDeps(t) # DepsOf(t)
  /\ execution_order # keys

\* C2: a pipeline with a dependency cycle is rejected before any body is
\* invoked, and run() never returns a run record for it.
C2_CycleRejected ==
  ~Acyclic => (pc # "done" /\ NoBodyInvoked)

\* C3: a dependency id that names no registered task is an error raised at
\* order computation, before the body of any task is invoked.
C3_DanglingFailFast ==
  ~NoDangling => (pc \in {"build", "raised"} /\ NoBodyInvoked)

\* C4: add_task with an id that is already registered leaves the registered
\* task definition unchanged.
C4_DuplicateRejected ==
  [][\A t \in Registered : tasks'[t] = tasks[t]]_vars

(* --------------------------- the run's tasks --------------------------- *)
RunTasks == DOMAIN dag_run.tasks
StatusOf(t) == dag_run.tasks[t].status
Last(s) == s[Len(s)]
AllFailed(s) == \A i \in 1..Len(s) : s[i] = FALSE
\* the retry loop is at work on t
InRetryLoop(t) == pc = "attempt" /\ execution_order[idx] = t
\* the run record of t holds an attempt count, and it is k
RecordedAttemptCount(t, k) ==
  /\ "attempt_count" \in DOMAIN dag_run.tasks[t]
  /\ dag_run.tasks[t].attempt_count = k

\* C5: in a run of an acyclic pipeline, the body of a task that depends,
\* directly or transitively, on a Failed task is never invoked; when run()
\* returns such a task is Skipped and the overall status is Failed.
C5_SkipPropagation ==
  Acyclic =>
    \A f \in RunTasks : StatusOf(f) = FAILED =>
      /\ pc = "done" => dag_run.status = FAILED
      /\ \A t \in RunTasks : f \in TransDeps(t) =>
           /\ ~Invoked(t)
           /\ pc = "done" => StatusOf(t) = SKIPPED

\* a returned run of a chain: the first task Failed, its indirect dependent Skipped
C5_Witness ==
  /\ pc = "done" /\ Acyclic
  /\ \E f, t \in RunTasks :
       /\ StatusOf(f) = FAILED
       /\ f \in TransDeps(t) \ DepsOf(t)
       /\ StatusOf(t) = SKIPPED

\* C6: in a run of an acyclic pipeline, a task with no direct or transitive
\* dependency on a Failed task is never Skipped: it is executed and ends
\* Success or Failed.
C6_Independence ==
  (pc = "done" /\ Acyclic) =>
    \A t \in RunTasks :
      (\A f \in TransDeps(t) \cap RunTasks : StatusOf(f) # FAILED) =>
        StatusOf(t) \in {SUCCESS, FAILED} /\ Invoked(t)

Exhausted(t) ==
  /\ dag_run.tasks[t].retries >= 1
  /\ StatusOf(t) \notin {PENDING, SKIPPED}
  /\ ~InRetryLoop(t)
  /\ AllFailed(calls[t])

C9_FailuresNeverRaise ==
  (Acyclic /\ NoDangling) =>
    /\ pc # "raised"
    /\ pc = "done" =>
         \A t \in RunTasks :
           /\ (\E i \in 1..Len(calls[t]) : ~calls[t][i]) =>
                dag_run.tasks[t].error # None
           /\ (Invoked(t) /\ ~Last(calls[t])) =>
                StatusOf(t) = FAILED /\ dag_run.status = FAILED

\* a returned run of a well-formed pipeline in which two tasks exhausted their retries
C9_Witness ==
  /\ pc = "done" /\ Acyclic /\ NoDangling
  /\ \E t, u \in RunTasks :
       /\ t # u
       /\ StatusOf(t) = FAILED /\ StatusOf(u) = FAILED
       /\ Len(calls[t]) = 2

\* C10: once a task is Success the shared context maps its id to its result,
\* so every body invoked later finds the results of the earlier successes.
C10_ContextHoldsResults ==
  \A t \in RunTasks :
    StatusOf(t) = SUCCESS =>
      t \in DOMAIN context /\ context[t] = dag_run.tasks[t].result

\* C11: a returned run has overall status Success exactly when none of its
\* tasks is Failed.
C11_SuccessIffNoFailed ==
  pc = "done" =>
    (dag_run.status = SUCCESS <=> \A t \in RunTasks : StatusOf(t) # FAILED)

\* C12: a returned run has every task in a terminal status (Success, Failed
\* or Skipped) and its end_time set.
C12_RunsToCompletion ==
  pc = "done" =>
    /\ \A t \in RunTasks : StatusOf(t) \in {SUCCESS, FAILED, SKIPPED}
    /\ dag_run.end_time # None

\* C14: every execution has its own run_id, two runs of the pipeline in the
\* same clock second included, so no run's record is overwritten by another
\* run's.
C14_RunIdUnique ==
  /\ \A i, j \in DOMAIN runs : i # j => runs[i].run_id # runs[j].run_id
  /\ \A i \in DOMAIN runs :
       (\E r \in table : r.run_id = runs[i].run_id) => Row(runs[i]) \in table

\* a step of run_pipeline being called
RunPipelineCalled ==
  /\ spc.at # "running"
  /\ spc' # spc
  /\ spc'.at \in {"running", "raised"}

\* C15: run_pipeline called with a dag_id that is not registered fails with
\* an error (ValueError); no body is invoked, no run is made or recorded, the
\* table and the registry stay as they are.
C15_UnregisteredRejected ==
  [][(RunPipelineCalled /\ spc'.dag_id \notin pipelines) =>
       /\ spc'.at = "raised"
       /\ spc'.error = "ValueError"
       /\ UNCHANGED <<keys, tasks, pc, dag_run, calls, runs, table, persisted,
                      pipelines>>]_vars

\* run_pipeline("q") was refused by a scheduler that holds the pipeline, has
\* run it and has rows in its table
C15_Witness ==
  /\ spc.at = "raised"
  /\ spc.error = "ValueError"
  /\ spc.dag_id = "q"
  /\ dag_id \in pipelines
  /\ runs # <<>>
  /\ table # {}

\* C16: when run_pipeline has returned, the row of the run it returns is in
\* the table; a failure of the store leaves run_pipeline with that error.
C16_ReturnAfterPersist ==
  /\ spc.at = "returned" => (persisted = dag_run /\ Row(dag_run) \in table)
  /\ spc.error = "sqlite3.Error" => spc.at = "raised"

\* run_pipeline returned the second run of the pipeline, a Failed one
C16_Witness ==
  /\ spc.at = "returned"
  /\ Len(runs) = 2
  /\ dag_run.status = FAILED

\* C18: the table holds at most one row per run_id, and the row of the run_id
\* persisted last is the row of that last save.
C18_Upsert ==
  /\ \A r1, r2 \in table : r1.run_id = r2.run_id => r1 = r2
  /\ persisted.run_id # None => Row(persisted) \in table

\* two runs share a run_id and differ; run_pipeline has saved the second and
\* the table holds that row alone
C18_Witness ==
  /\ spc.at = "returned"
  /\ Len(runs) = 2
  /\ runs[1].run_id = runs[2].run_id
  /\ Row(runs[1]) # Row(runs[2])
  /\ table = {Row(runs[2])}

\* C19: the order computed for a run is the order _get_execution_order gives
\* at any later point of the run and after it: without an add_task in
\* between two calls agree, and run() changes nothing the order depends on.
C19_OrderDeterministic ==
  pc # "build" => get_execution_order(keys, tasks) = execution_order

\* a run has returned whose order is not the insertion order
C19_Witness ==
  /\ pc = "done"
  /\ Len(keys) = 3
  /\ execution_order # keys
  /\ \E t \in RunTasks : StatusOf(t) = FAILED

\* a task as add_task made it: Pending, no result, error or timestamp
Untouched(task) ==
  /\ task.status = PENDING
  /\ task.result = None
  /\ task.error = None
  /\ task.started_at = None
  /\ task.completed_at = None

\* C20: run() leaves the pipeline's own tasks as add_task made them, and
\* every run starts with all its tasks Pending and untouched.
C20_DefinitionUntouched ==
  /\ \A t \in Registered : Untouched(tasks[t])
  /\ (pc = "loop" /\ idx = 1) => \A t \in RunTasks : Untouched(dag_run.tasks[t])

\* a second run starts after a first one that had a Failed task
C20_Witness ==
  /\ pc = "loop"
  /\ idx = 1
  /\ Len(runs) = 1
  /\ \E t \in DOMAIN runs[1].tasks : runs[1].tasks[t].status = FAILED
  /\ RunTasks # {}

(* ------------------- helpers of the store's claims -------------------- *)
\* the text a timestamp field is stored as
Iso(x) == IF x # None THEN isoformat(x) ELSE None

\* the history entry e carries what the DAGRun run holds
SameRecord(run, e) ==
  /\ run.run_id = e.run_id
  /\ run.dag_id = e.dag_id
  /\ value(run.status) = e.status
  /\ Iso(run.start_time) = e.start_time
  /\ Iso(run.end_time) = e.end_time
  /\ DOMAIN run.tasks = DOMAIN e.results
  /\ \A t \in DOMAIN run.tasks :
       /\ value(run.tasks[t].status) = e.results[t].status
       /\ run.tasks[t].error = e.results[t].error
       /\ Iso(run.tasks[t].started_at) = e.results[t].started_at
       /\ Iso(run.tasks[t].completed_at) = e.results[t].completed_at

\* the rows of the table that get_run_history(d, ...) is asked for
Matching(d) == {r \in table : d = None \/ r.dag_id = d}

GateStep ==
  /\ pc = "loop"
  /\ idx <= Len(execution_order)
  /\ (pc' # pc \/ idx' # idx)

\* some dependency of task t of the run does not have status Success
Unmet(t) ==
  \E dep \in Range(dag_run.tasks[t].dependencies) :
    dep \notin RunTasks \/ dag_run.tasks[dep].status # SUCCESS

\* C21: at a task's turn it becomes Skipped exactly when some dependency of
\* it does not have status Success; otherwise it becomes Running and its
\* body is invoked next.
C21_GateCheck ==
  [][GateStep =>
       LET t == execution_order[idx]
       IN  /\ Unmet(t) <=> dag_run'.tasks[t].status = SKIPPED
           /\ ~Unmet(t) => (dag_run'.tasks[t].status = RUNNING /\ pc' = "attempt")]_vars

\* the changes of status a task of a run may make
Transitions ==
  {<<PENDING, RUNNING>>, <<RUNNING, SUCCESS>>, <<RUNNING, FAILED>>, <<PENDING, SKIPPED>>}

\* C22: within a run a task's status changes only Pending -> Running,
\* Running -> Success, Running -> Failed or Pending -> Skipped; a failed
\* attempt that is not the last leaves it Running; Success, Failed and
\* Skipped are never left.
C22_StatusTransitions ==
  [][pc # "build" =>
       \A t \in RunTasks :
         /\ dag_run'.tasks[t].status # StatusOf(t) =>
              <<StatusOf(t), dag_run'.tasks[t].status>> \in Transitions
         /\ (/\ Len(calls'[t]) = Len(calls[t]) + 1
             /\ ~Last(calls'[t])
             /\ Len(calls'[t]) < dag_run.tasks[t].retries) =>
              dag_run'.tasks[t].status = RUNNING]_vars

\* a returned run: a task Failed after two attempts, a task Success on its
\* second attempt and a task Skipped
C22_Witness ==
  /\ pc = "done"
  /\ \E t, u, v \in RunTasks :
       /\ StatusOf(t) = FAILED /\ calls[t] = <<FALSE, FALSE>>
       /\ StatusOf(u) = SUCCESS /\ calls[u] = <<FALSE, TRUE>>
       /\ StatusOf(v) = SKIPPED

\* C23: in a returned run a task has an error text exactly when it is Failed.
C23_ErrorIffFailed ==
  pc = "done" =>
    \A t \in RunTasks : dag_run.tasks[t].error # None <=> StatusOf(t) = FAILED

\* C24: at most one task of the run is Running, and every task whose turn
\* has passed is Success, Failed or Skipped before the next gate is evaluated.
C24_Sequential ==
  /\ Cardinality({t \in RunTasks : StatusOf(t) = RUNNING}) <= 1
  /\ pc = "loop" =>
       \A j \in 1..(idx - 1) :
         StatusOf(execution_order[j]) \in {SUCCESS, FAILED, SKIPPED}

\* C27: a task that is Skipped was Pending before, its body has not been
\* invoked in the run, and its result, error, started_at and completed_at
\* are unset.
C27_SkippedNeverRun ==
  [][\A t \in DOMAIN dag_run'.tasks :
       dag_run'.tasks[t].status = SKIPPED =>
         /\ calls'[t] = <<>>
         /\ dag_run'.tasks[t].result = None
         /\ dag_run'.tasks[t].error = None
         /\ dag_run'.tasks[t].started_at = None
         /\ dag_run'.tasks[t].completed_at = None
         /\ StatusOf(t) \in {PENDING, SKIPPED}]_vars

\* a returned run: a task that depends on itself is Skipped, another task
\* was executed and is Success
C27_Witness ==
  /\ pc = "done"
  /\ \E t, u \in RunTasks :
       /\ t \in DepsOf(t)
       /\ StatusOf(t) = SKIPPED
       /\ StatusOf(u) = SUCCESS

\* t lies on a dependency cycle, or depends on a task that does
Tainted(t) ==
  \/ t \in TransDeps(t)
  \/ \E c \in TransDeps(t) : c \in TransDeps(c)

\* C28: the body of a task that lies on a dependency cycle, or depends
\* directly or transitively on such a task, is never invoked, and in a
\* returned run every such task is Skipped.
C28_CycleSkipped ==
  \A t \in RunTasks :
    Tainted(t) =>
      /\ ~Invoked(t)
      /\ pc = "done" => StatusOf(t) = SKIPPED

\* a returned run of a cycle of two tasks and a third task, outside the
\* cycle, that depends on one of them
C28_Witness ==
  /\ pc = "done"
  /\ \E t, u, v \in RunTasks :
       /\ t # u
       /\ t \in DepsOf(u) /\ u \in DepsOf(t)
       /\ v \notin TransDeps(v)
       /\ t \in DepsOf(v)
       /\ StatusOf(v) = SKIPPED

\* the tick of a timestamp
At(dt) == dt[2]

\* C25: in a returned run, every task whose body was invoked has started_at
\* and completed_at set, started_at no later than completed_at; each of its
\* dependencies has completed_at set, no later than the task's started_at;
\* every timestamp of a task lies between the run's start_time and end_time.
C25_CausalTimestamps ==
  pc = "done" =>
    \A t \in RunTasks :
      LET task == dag_run.tasks[t]
      IN  /\ Invoked(t) =>
               /\ task.started_at # None
               /\ task.completed_at # None
               /\ At(task.started_at) <= At(task.completed_at)
               /\ \A dep \in Range(task.dependencies) :
                    /\ dep \in RunTasks
                    /\ dag_run.tasks[dep].completed_at # None
                    /\ At(dag_run.tasks[dep].completed_at) <= At(task.started_at)
          /\ task.started_at # None =>
               /\ At(dag_run.start_time) <= At(task.started_at)
               /\ At(task.started_at) <= At(dag_run.end_time)
          /\ task.completed_at # None =>
               /\ At(dag_run.start_time) <= At(task.completed_at)
               /\ At(task.completed_at) <= At(dag_run.end_time)

\* a returned run in which time passed between the completion of a and the
\* start of its dependent b, and during b
C25_Witness ==
  /\ pc = "done"
  /\ RunTasks = {"a", "b"}
  /\ Invoked("b")
  /\ At(dag_run.tasks["a"].completed_at) < At(dag_run.tasks["b"].started_at)
  /\ At(dag_run.tasks["b"].started_at) < At(dag_run.tasks["b"].completed_at)

\* C30: Pipeline.runs only grows, by the record a run() returns, put last at
\* the step that returns it; a run() that raises adds nothing.
C30_RunsAppendOnly ==
  [][/\ (pc' = "done" /\ pc # "done") => runs' = Append(runs, dag_run')
     /\ ~(pc' = "done" /\ pc # "done") => runs' = runs]_vars

\* a run has raised on an unregistered dependency id after an earlier run
\* of the pipeline returned: the log holds that one record
C30_Witness ==
  /\ pc = "raised"
  /\ ~NoDangling
  /\ Len(runs) = 1
  /\ runs[1].status = FAILED

(* ------------------------- the order's claims ------------------------- *)
\* t was registered before u
Earlier(t, u) == Pos(keys, t) < Pos(keys, u)

\* the pairs <<t, d>> with d a direct or transitive dependency of task t
AllTransDeps == UNION {{<<t, d>> : d \in TransDeps(t)} : t \in Registered}

\* neither of x and y depends, directly or transitively, on the other (TD
\* being AllTransDeps)
Independent(TD, x, y) == <<y, x>> \notin TD /\ <<x, y>> \notin TD

\* t is in the dependency list of a task registered before it
DependencyOfEarlier(t) == \E e \in Registered : Earlier(e, t) /\ t \in DepsOf(e)

\* t is a direct or transitive dependency of a task registered before it
TransDependencyOfEarlier(TD, t) == \E e \in Registered : Earlier(e, t) /\ <<e, t>> \in TD

\* C26 as stated: two tasks that do not depend on each other and are in the
\* dependency list of no earlier-registered task come in registration order;
\* a pipeline without dependencies is ordered by registration.
C26_TieBreakDirect ==
  pc = "ordered" =>
    /\ \A x, y \in Registered :
         (/\ Earlier(x, y)
          /\ Independent(AllTransDeps, x, y)
          /\ ~DependencyOfEarlier(x)
          /\ ~DependencyOfEarlier(y)) =>
           Pos(execution_order, x) < Pos(execution_order, y)
    /\ (\A t \in Registered : DepsOf(t) = {}) => execution_order = keys

\* C26: two tasks that do not depend on each other and are no direct or
\* transitive dependency of an earlier-registered task come in registration
\* order; a pipeline without dependencies is ordered by registration.
C26_TieBreak ==
  pc = "ordered" =>
    /\ LET TD == AllTransDeps
       IN  \A x, y \in Registered :
             (/\ Earlier(x, y)
              /\ Independent(TD, x, y)
              /\ ~TransDependencyOfEarlier(TD, x)
              /\ ~TransDependencyOfEarlier(TD, y)) =>
               Pos(execution_order, x) < Pos(execution_order, y)
    /\ (\A t \in Registered : DepsOf(t) = {}) => execution_order = keys

\* an order that is not the registration order, with two such tasks that are
\* not the first registered, the later of them having a dependency
C26_Witness ==
  /\ pc = "ordered"
  /\ execution_order # keys
  /\ \E x, y \in Registered :
       /\ Earlier(x, y)
       /\ Pos(keys, x) > 1
       /\ Independent(AllTransDeps, x, y)
       /\ ~TransDependencyOfEarlier(AllTransDeps, x)
       /\ ~TransDependencyOfEarlier(AllTransDeps, y)
       /\ DepsOf(y) # {}

====
